---- MODULE Spec2Model ----
(***************************************************************************)
(* College Football Team Checker (src/cfb_checker.py).                     *)
(*                                                                         *)
(* One run of main(): the team name is read, resolved against TEAM_IDS,     *)
(* the profile and the schedule are fetched, display_team_info prints.     *)
(*                                                                         *)
(* Python values are held tagged (None, int, float, str, dict, list) so    *)
(* that .get on a non-dict, a comparison with None or float() of a         *)
(* non-number raise as they do in Python.  A raised exception is the       *)
(* value Raise(name); it propagates through every operator.  Text that the *)
(* code parses or re-cases (the team name, a score given as a string) is a *)
(* sequence of one-character strings; other text is a string.  Each print  *)
(* call appends one entry to out; decorative glyphs, rules and blank       *)
(* lines are left out of the entry.                                        *)
(***************************************************************************)
EXTENDS Integers, Sequences, FiniteSets, TLC

VARIABLES pc, team_name, team_id, team_data, schedule_data, requests,
          completed_games, next_game, out, exc

vars == <<pc, team_name, team_id, team_data, schedule_data, requests,
          completed_games, next_game, out, exc>>

\* Longest schedule document the model enumerates (number of events).
MaxEvents == 2

-----------------------------------------------------------------------------
\* Python values

None == [t |-> "none"]
PyInt(n) == [t |-> "int", v |-> n]
\* a float, as sign, whole part and first decimal digit
PyFloat(neg, whole, tenth) == [t |-> "float", neg |-> neg, whole |-> whole, tenth |-> tenth]
PyStr(s) == [t |-> "str", v |-> s]
\* a string held as its characters
PyText(chars) == [t |-> "text", v |-> chars]
PyDict(d) == [t |-> "dict", d |-> d]
PyList(l) == [t |-> "list", l |-> l]
Raise(e) == [t |-> "raise", e |-> e]

EmptyDict == PyDict(<<>>)
EmptyList == PyList(<<>>)

IsRaise(v) == v.t = "raise"

\* d.get(k, default)
Get(d, k, default) ==
    IF IsRaise(d) THEN d
    ELSE IF d.t # "dict" THEN Raise("AttributeError")
    ELSE IF k \in DOMAIN d.d THEN d.d[k] ELSE default

\* bool(v)
Truthy(v) ==
    CASE v.t = "none" -> FALSE
      [] v.t = "int" -> v.v # 0
      [] v.t = "float" -> v.whole # 0 \/ v.tenth # 0
      [] v.t = "str" -> v.v # ""
      [] v.t = "text" -> Len(v.v) > 0
      [] v.t = "dict" -> DOMAIN v.d # {}
      [] v.t = "list" -> Len(v.l) > 0
      [] OTHER -> FALSE

\* a == b for the values the code compares with ==
PyEq(a, b) == a.t = b.t /\ a = b

RECURSIVE Concat(_)
\* ''.join(chars)
Concat(chars) == IF chars = <<>> THEN "" ELSE Head(chars) \o Concat(Tail(chars))

\* str(v) as an f-string renders it
Str(v) ==
    CASE v.t = "none" -> "None"
      [] v.t = "int" -> ToString(v.v)
      [] v.t = "float" -> (IF v.neg THEN "-" ELSE "") \o ToString(v.whole) \o "." \o ToString(v.tenth)
      [] v.t = "str" -> v.v
      [] v.t = "text" -> Concat(v.v)
      [] v.t = "dict" -> "{...}"
      [] v.t = "list" -> "[...]"
      [] OTHER -> "?"

-----------------------------------------------------------------------------
\* Characters

UpperCase == <<"A","B","C","D","E","F","G","H","I","J","K","L","M",
               "N","O","P","Q","R","S","T","U","V","W","X","Y","Z">>
LowerCase == <<"a","b","c","d","e","f","g","h","i","j","k","l","m",
               "n","o","p","q","r","s","t","u","v","w","x","y","z">>
Digits == <<"0","1","2","3","4","5","6","7","8","9">>

InSeq(c, s) == \E i \in 1..Len(s) : s[i] = c
IndexOf(c, s) == CHOOSE i \in 1..Len(s) : s[i] = c

IsAlpha(c) == InSeq(c, UpperCase) \/ InSeq(c, LowerCase)
LowerChar(c) == IF InSeq(c, UpperCase) THEN LowerCase[IndexOf(c, UpperCase)] ELSE c
UpperChar(c) == IF InSeq(c, LowerCase) THEN UpperCase[IndexOf(c, LowerCase)] ELSE c

\* str.lower()
Lower(s) == [i \in 1..Len(s) |-> LowerChar(s[i])]

\* str.title(): a letter that follows a non-letter is upper-cased, the others lower-cased
Title(s) == [i \in 1..Len(s) |->
               IF i = 1 \/ ~IsAlpha(s[i-1]) THEN UpperChar(s[i]) ELSE LowerChar(s[i])]

\* the one whitespace character the inputs use
IsSpace(c) == c = " "

RECURSIVE LStrip(_)
LStrip(s) == IF s # <<>> /\ IsSpace(Head(s)) THEN LStrip(Tail(s)) ELSE s
RECURSIVE RStrip(_)
RStrip(s) == IF s # <<>> /\ IsSpace(s[Len(s)]) THEN RStrip(SubSeq(s, 1, Len(s) - 1)) ELSE s
\* str.strip()
Strip(s) == RStrip(LStrip(s))

RECURSIVE Join(_, _)
\* sep.join(words), words and sep as character sequences
Join(sep, words) ==
    IF words = <<>> THEN <<>>
    ELSE IF Len(words) = 1 THEN words[1]
    ELSE words[1] \o sep \o Join(sep, Tail(words))

-----------------------------------------------------------------------------
\* Team directory

TEAM_IDS == <<
    <<<<"n","a","v","y">>, "2426">>,
    <<<<"a","i","r"," ","f","o","r","c","e">>, "2005">>,
    <<<<"a","r","m","y">>, "349">>,
    <<<<"m","i","c","h","i","g","a","n">>, "130">>,
    <<<<"o","h","i","o"," ","s","t","a","t","e">>, "194">>,
    <<<<"a","l","a","b","a","m","a">>, "333">>,
    <<<<"g","e","o","r","g","i","a">>, "61">>,
    <<<<"c","l","e","m","s","o","n">>, "228">>,
    <<<<"n","o","t","r","e"," ","d","a","m","e">>, "87">>,
    <<<<"u","s","c">>, "30">>,
    <<<<"t","e","x","a","s">>, "251">>,
    <<<<"o","k","l","a","h","o","m","a">>, "201">>,
    <<<<"p","e","n","n"," ","s","t","a","t","e">>, "213">>,
    <<<<"f","l","o","r","i","d","a">>, "57">>,
    <<<<"l","s","u">>, "99">>,
    <<<<"o","r","e","g","o","n">>, "2483">>,
    <<<<"w","a","s","h","i","n","g","t","o","n">>, "264">>,
    <<<<"m","i","a","m","i">>, "2390">>,
    <<<<"f","l","o","r","i","d","a"," ","s","t","a","t","e">>, "52">>,
    <<<<"t","e","n","n","e","s","s","e","e">>, "2633">>,
    <<<<"a","u","b","u","r","n">>, "2">>,
    <<<<"w","i","s","c","o","n","s","i","n">>, "275">>,
    <<<<"t","e","x","a","s"," ","a","&","m">>, "245">>,
    <<<<"s","t","a","n","f","o","r","d">>, "24">>,
    <<<<"u","c","l","a">>, "26">>,
    <<<<"t","e","x","a","s"," ","t","e","c","h">>, "2641">>,
    <<<<"o","l","e"," ","m","i","s","s">>, "145">>,
    <<<<"m","i","s","s","i","s","s","i","p","p","i"," ","s","t","a","t","e">>, "344">>,
    <<<<"a","r","k","a","n","s","a","s">>, "8">>,
    <<<<"k","e","n","t","u","c","k","y">>, "96">>,
    <<<<"s","o","u","t","h"," ","c","a","r","o","l","i","n","a">>, "2579">>,
    <<<<"v","a","n","d","e","r","b","i","l","t">>, "238">>,
    <<<<"m","i","s","s","o","u","r","i">>, "142">>,
    <<<<"k","a","n","s","a","s">>, "2305">>,
    <<<<"k","a","n","s","a","s"," ","s","t","a","t","e">>, "2306">>,
    <<<<"i","o","w","a"," ","s","t","a","t","e">>, "66">>,
    <<<<"b","a","y","l","o","r">>, "239">>,
    <<<<"t","c","u">>, "2628">>,
    <<<<"o","k","l","a","h","o","m","a"," ","s","t","a","t","e">>, "197">>,
    <<<<"w","e","s","t"," ","v","i","r","g","i","n","i","a">>, "277">>,
    <<<<"u","t","a","h">>, "254">>,
    <<<<"c","o","l","o","r","a","d","o">>, "38">>,
    <<<<"a","r","i","z","o","n","a">>, "12">>,
    <<<<"a","r","i","z","o","n","a"," ","s","t","a","t","e">>, "9">>,
    <<<<"c","a","l">>, "25">>,
    <<<<"b","o","s","t","o","n"," ","c","o","l","l","e","g","e">>, "103">>,
    <<<<"s","y","r","a","c","u","s","e">>, "183">>,
    <<<<"p","i","t","t">>, "221">>,
    <<<<"v","i","r","g","i","n","i","a">>, "258">>,
    <<<<"v","i","r","g","i","n","i","a"," ","t","e","c","h">>, "259">>,
    <<<<"n","c"," ","s","t","a","t","e">>, "152">>,
    <<<<"n","o","r","t","h"," ","c","a","r","o","l","i","n","a">>, "153">>,
    <<<<"d","u","k","e">>, "150">>,
    <<<<"w","a","k","e"," ","f","o","r","e","s","t">>, "154">>,
    <<<<"l","o","u","i","s","v","i","l","l","e">>, "97">>,
    <<<<"h","o","u","s","t","o","n">>, "248">>,
    <<<<"u","c","f">>, "2116">>,
    <<<<"c","i","n","c","i","n","n","a","t","i">>, "2132">>,
    <<<<"b","y","u">>, "252">>,
    <<<<"s","m","u">>, "2567">>,
    <<<<"m","e","m","p","h","i","s">>, "235">>,
    <<<<"t","u","l","a","n","e">>, "2655">>
>>

\* len(TEAM_IDS)
TeamCount == Cardinality({TEAM_IDS[i][1] : i \in 1..Len(TEAM_IDS)})

\* get_team_id without the lower-casing
GetTeamIdCaseSensitive(name) ==
    LET hits == {i \in 1..Len(TEAM_IDS) : TEAM_IDS[i][1] = name}
    IN  IF hits = {} THEN None
        ELSE PyStr(TEAM_IDS[CHOOSE i \in hits : \A j \in hits : j <= i][2])

\* get_team_id(team_name): TEAM_IDS.get(team_name.lower())
get_team_id(name) ==
    LET team_name_lower == Lower(name)
        hits == {i \in 1..Len(TEAM_IDS) : TEAM_IDS[i][1] = team_name_lower}
    IN  IF hits = {} THEN None
        ELSE PyStr(TEAM_IDS[CHOOSE i \in hits : \A j \in hits : j <= i][2])

-----------------------------------------------------------------------------
\* Inputs of a run: the command line, the line typed at the prompt

Navy == <<"N","a","v","y">>
navy == <<"n","a","v","y">>

\* sys.argv[1:], when not empty
ArgvInputs ==
    { <<<<"O","h","i","o">>, <<"S","t","a","t","e">>>>,
      <<<<"n","a","v">>>>, <<<<"a","v","y">>>>, <<<<" ","n","a","v","y">>>>,
      <<<<"n","a","v","y"," ">>>>, <<<<"n","a","v","y","y">>>>,
      <<<<"o","h","i","o">>>>, <<<<"x","y","z">>>>, <<<<>>>> }

\* what input() returns
StdinLines ==
    { <<" ","N","a","v","y"," ">>, <<>>, <<" "," ">>, <<"a","r","m">>,
      <<"o","h","i","o"," "," ","s","t","a","t","e">> }

\* Longest name of NameWords
MaxNameLen == 4

NameChars == {"c", "C", "a", "A", "l", " "}

RECURSIVE SeqsUpTo(_, _)
\* the sequences over S of length at most n
SeqsUpTo(S, n) ==
    IF n = 0 THEN {<<>>}
    ELSE LET shorter == SeqsUpTo(S, n - 1)
         IN  shorter \cup { Append(s, x) : s \in shorter, x \in S }

\* every text of at most MaxNameLen characters of NameChars (the key 'cal' in
\* every casing, its prefixes, its padded forms), and two spellings of 'navy'
NameWords == SeqsUpTo(NameChars, MaxNameLen) \cup {Navy, navy}

-----------------------------------------------------------------------------
\* What the upstream API can answer

Absent == [t |-> "absent"]

\* a dict literal of the listed keys, the Absent ones left out
MkDict(r) == PyDict([k \in {x \in DOMAIN r : r[x] # Absent} |-> r[k]])

HttpFailures == { [kind |-> "timeout"], [kind |-> "status", code |-> 404] }
HttpOk(doc) == [kind |-> "ok", json |-> doc]

\* requests.get(...); raise_for_status(); response.json(), any exception giving None
FetchResult(resp) == IF resp.kind = "ok" THEN resp.json ELSE None

FetchError(resp) ==
    IF resp.kind = "timeout" THEN "Read timed out"
    ELSE ToString(resp.code) \o " Error"

\* --- profile documents (team.{id,displayName,rank,record.items[]}) ---

Stat(name, value) == MkDict([name |-> PyStr(name), value |-> PyInt(value)])
RecordItem(type, name, summary, stats) ==
    MkDict([type |-> type, name |-> name, summary |-> summary, stats |-> stats])
TotalItem ==
    RecordItem(PyStr("total"), PyStr("overall"), PyStr("7-2"),
               PyList(<<Stat("wins", 7), Stat("losses", 2)>>))
OverallItem == RecordItem(Absent, PyStr("overall"), PyStr("6-3"), Absent)
HomeItem == RecordItem(PyStr("homerecord"), PyStr("Home"), PyStr("4-1"), Absent)
Record(items) == MkDict([items |-> items])
Team(id, displayName, rank, record) ==
    MkDict([id |-> id, displayName |-> displayName, rank |-> rank, record |-> record])
Profile(team) == MkDict([team |-> team])

ProfileRanks == { Absent, None, PyInt(1), PyInt(12), PyInt(25), PyInt(26) }

ProfileRecords ==
    { Absent, None, Record(EmptyList), Record(PyList(<<HomeItem>>)),
      Record(PyList(<<HomeItem, OverallItem>>)),
      Record(PyList(<<RecordItem(PyStr("total"), Absent, Absent, None)>>)),
      Record(PyList(<<None>>)) }

\* the documents the profile endpoint can return for team `id`: a usual one, and
\* the same with one field missing, null or different
ProfileDocs(id) ==
    LET base == Team(id, PyStr("Team"), PyInt(0), Record(PyList(<<TotalItem>>)))
    IN  { Profile(base), EmptyDict, Profile(Absent), Profile(None),
          Profile(Team(Absent, PyStr("Team"), PyInt(0), Record(PyList(<<TotalItem>>)))),
          Profile(Team(id, Absent, PyInt(0), Record(PyList(<<TotalItem>>)))) }
        \cup { Profile(Team(id, PyStr("Team"), r, Record(PyList(<<TotalItem>>)))) : r \in ProfileRanks }
        \cup { Profile(Team(id, PyStr("Team"), PyInt(0), rec)) : rec \in ProfileRecords }

ProfileResponses(id) == HttpFailures \cup { HttpOk(doc) : doc \in ProfileDocs(id) }

\* --- schedule documents (events[].{date,competitions[]...}) ---

KickoffDate == PyText(<<"2","0","2","4","-","0","9","-","0","7","T","1","6",":","0","0","Z">>)

Competitor(id, name, homeAway, score, rank) ==
    MkDict([team |-> MkDict([id |-> id, displayName |-> PyStr(name)]),
            homeAway |-> PyStr(homeAway), score |-> score,
            curatedRank |-> MkDict([current |-> rank])])

Status(name) == MkDict([type |-> MkDict([name |-> PyStr(name)])])

Venue == MkDict([fullName |-> PyStr("Stadium"),
                 address |-> MkDict([city |-> PyStr("City"), state |-> PyStr("ST")])])
Broadcasts == PyList(<<MkDict([names |-> PyList(<<PyStr("ESPN"), PyStr("ABC")>>)])>>)

Event(date, status, competitors, venue, broadcasts) ==
    MkDict([date |-> date,
            competitions |-> PyList(<<MkDict([status |-> status,
                                              competitors |-> PyList(competitors),
                                              venue |-> venue,
                                              broadcasts |-> broadcasts])>>)])

OtherId == PyStr("999")

\* the events the schedule endpoint can list for team `id`
Events(id) ==
    LET us(ha, score) == Competitor(id, "Team", ha, score, PyInt(0))
        opp(ha, score, rank) == Competitor(OtherId, "Opp", ha, score, rank)
        final == Status("STATUS_FINAL")
        sched == Status("STATUS_SCHEDULED")
        ev(status, comps) == Event(KickoffDate, status, comps, Absent, Absent)
    IN  { MkDict([date |-> KickoffDate, competitions |-> EmptyList]),
          \* status
          ev(final, <<us("home", PyInt(28)), opp("away", PyInt(24), PyInt(0))>>),
          ev(Status("STATUS_POSTPONED"), <<us("home", Absent), opp("away", Absent, PyInt(0))>>),
          ev(Absent, <<opp("home", Absent, PyInt(30)), us("away", Absent)>>),
          ev(None, <<us("home", Absent), opp("away", Absent, PyInt(0))>>),
          \* sides
          ev(final, <<us("home", PyInt(35))>>),
          ev(final, <<opp("home", PyInt(3), PyInt(0))>>),
          ev(final, <<Competitor(Absent, "Opp", "home", PyInt(17), PyInt(0)),
                      Competitor(Absent, "Opp2", "away", PyInt(10), PyInt(0))>>),
          \* scores
          ev(final, <<opp("home", MkDict([value |-> PyText(<<"1","4",".","0">>)]), PyInt(12)),
                      us("away", PyInt(21))>>),
          Event(Absent, final, <<us("home", PyFloat(FALSE, 21, 9)),
                                 opp("away", PyText(<<"2","1">>), PyInt(30))>>, Absent, Absent),
          ev(final, <<us("home", PyInt(7)), opp("away", PyText(<<"a","b","c">>), PyInt(0))>>),
          \* upcoming
          Event(KickoffDate, sched, <<us("home", Absent), opp("away", Absent, PyInt(0))>>,
                Venue, Broadcasts),
          ev(sched, <<us("home", Absent), opp("away", Absent, PyInt(25))>>),
          ev(sched, <<opp("home", Absent, PyInt(12)), us("away", Absent)>>) }

ScheduleDocs(id) ==
    { EmptyDict, MkDict([events |-> None]) }
    \cup { MkDict([events |-> PyList(evs)]) : evs \in SeqsUpTo(Events(id), MaxEvents) }

ScheduleResponses(id) == HttpFailures \cup { HttpOk(doc) : doc \in ScheduleDocs(id) }
-----------------------------------------------------------------------------
\* Formatting and coercion

\* the first exception among the values, in evaluation order, or None
RECURSIVE FirstRaise(_)
FirstRaise(vals) ==
    IF vals = <<>> THEN None
    ELSE IF IsRaise(Head(vals)) THEN Head(vals) ELSE FirstRaise(Tail(vals))

IsNumber(v) == v.t \in {"int", "float"}
\* v > 0 and v <= 25, for a number
InTop25(v) ==
    IF v.t = "int" THEN v.v > 0 /\ v.v <= 25
    ELSE ~v.neg /\ (v.whole > 0 \/ v.tenth > 0) /\ (v.whole < 25 \/ (v.whole = 25 /\ v.tenth = 0))

\* the rank rule with the lower bound taken as rank >= 0
RankDisplayFromZero(rank, name, unranked) ==
    IF FirstRaise(<<name, rank>>) # None THEN FirstRaise(<<name, rank>>)
    ELSE IF ~IsNumber(rank) THEN Raise("TypeError")
    ELSE IF rank.t = "int" /\ rank.v >= 0 /\ rank.v <= 25
         THEN PyStr("#" \o Str(rank) \o " " \o Str(name))
         ELSE PyStr(unranked \o " " \o Str(name))

\* f"#{rank} {name}" if rank > 0 and rank <= 25 else f"{unranked} {name}"
RankDisplay(rank, name, unranked) ==
    IF FirstRaise(<<name, rank>>) # None THEN FirstRaise(<<name, rank>>)
    ELSE IF ~IsNumber(rank) THEN Raise("TypeError")
    ELSE IF InTop25(rank) THEN PyStr("#" \o Str(rank) \o " " \o Str(name))
    ELSE PyStr(unranked \o " " \o Str(name))

IsDigit(c) == InSeq(c, Digits)
AllDigits(s) == \A i \in 1..Len(s) : IsDigit(s[i])
RECURSIVE DigitsValue(_)
DigitsValue(s) ==
    IF s = <<>> THEN 0 ELSE 10 * DigitsValue(SubSeq(s, 1, Len(s) - 1)) + (IndexOf(s[Len(s)], Digits) - 1)

\* float(text) for decimal notation [sign] digits [. digits], spaces around allowed;
\* anything else is a ValueError
ParseFloat(chars) ==
    LET s == Strip(chars)
        neg == s # <<>> /\ Head(s) = "-"
        body == IF s # <<>> /\ Head(s) \in {"-", "+"} THEN Tail(s) ELSE s
        dots == {i \in 1..Len(body) : body[i] = "."}
        dot == IF dots = {} THEN Len(body) + 1 ELSE CHOOSE i \in dots : \A j \in dots : i <= j
        whole == SubSeq(body, 1, dot - 1)
        frac == SubSeq(body, dot + 1, Len(body))
    IN  IF Cardinality(dots) <= 1 /\ AllDigits(whole) /\ AllDigits(frac) /\ Len(whole) + Len(frac) > 0
        THEN PyFloat(neg, DigitsValue(whole), IF frac = <<>> THEN 0 ELSE IndexOf(frac[1], Digits) - 1)
        ELSE Raise("ValueError")

\* float(v)
ToFloat(v) ==
    CASE IsRaise(v) -> v
      [] v.t = "int" -> PyFloat(v.v < 0, IF v.v < 0 THEN -v.v ELSE v.v, 0)
      [] v.t = "float" -> v
      [] v.t = "text" -> ParseFloat(v.v)
      [] v.t = "str" -> Raise("ValueError")
      [] OTHER -> Raise("TypeError")

\* int(f): truncation toward zero
ToInt(f) == IF IsRaise(f) THEN f ELSE PyInt(IF f.neg THEN -f.whole ELSE f.whole)

\* raw.get('value', raw) if isinstance(raw, dict) else raw, then int(float(...))
Score(raw) ==
    IF IsRaise(raw) THEN raw
    ELSE ToInt(ToFloat(IF raw.t = "dict" THEN Get(raw, "value", raw) ELSE raw))

\* f"{s:>7}"
RECURSIVE PadLeft(_, _)
PadLeft(s, width) == IF Len(s) >= width THEN s ELSE PadLeft(" " \o s, width)

\* datetime.fromisoformat(date_str.replace('Z', '+00:00')).strftime('%m/%d/%y'),
\* 'Unknown' when the text is no ISO date
GameDate(date_str) ==
    IF ~Truthy(date_str) \/ date_str.t # "text" THEN "Unknown"
    ELSE LET d == date_str.v
         IN  IF Len(d) >= 10 /\ AllDigits(SubSeq(d, 1, 4)) /\ d[5] = "-"
                /\ AllDigits(SubSeq(d, 6, 7)) /\ d[8] = "-" /\ AllDigits(SubSeq(d, 9, 10))
                /\ DigitsValue(SubSeq(d, 6, 7)) \in 1..12 /\ DigitsValue(SubSeq(d, 9, 10)) \in 1..31
                /\ (Len(d) = 10 \/ d[11] = "T")
             THEN Concat(SubSeq(d, 6, 7)) \o "/" \o Concat(SubSeq(d, 9, 10)) \o "/" \o Concat(SubSeq(d, 3, 4))
             ELSE "Unknown"

\* format_datetime(date_str): the kickoff in the host's time zone; the rendering
\* depends on the host, so the entry keeps the instant it renders
format_datetime(date_str) == "<local " \o Str(date_str) \o ">"
-----------------------------------------------------------------------------
\* display_team_info, section by section.  A section gives the entries it
\* prints and the exception it raises (None when it runs to its end).

Section(lines, e) == [lines |-> lines, e |-> e]

IsStr(v, s) == v.t = "str" /\ v.v = s

\* team = team_data.get('team', {})
TeamOf(data) == Get(data, "team", EmptyDict)

\* lines 161-173: the header
HeaderSection(data) ==
    LET team == TeamOf(data)
        team_display == RankDisplay(Get(team, "rank", PyInt(0)),
                                    Get(team, "displayName", PyStr("Unknown Team")), "(UR)")
    IN  IF IsRaise(team_display) THEN Section(<<>>, team_display)
        ELSE Section(<<"  " \o team_display.v>>, None)

\* for item in record_items: the index of the first item typed 'total' or named
\* 'overall', 0 when the loop ends without one, an exception when an item has no .get
RECURSIVE FindOverall(_, _)
FindOverall(items, i) ==
    IF i > Len(items) THEN PyInt(0)
    ELSE LET type == Get(items[i], "type", None)
             name == Get(items[i], "name", None)
         IN  IF IsRaise(type) THEN type
             ELSE IF IsStr(type, "total") \/ IsStr(name, "overall") THEN PyInt(i)
             ELSE FindOverall(items, i + 1)

\* for stat in stats: stat.get('name') ...
StatsLoop(stats) ==
    IF IsRaise(stats) THEN stats
    ELSE IF stats.t # "list" THEN Raise("TypeError")
    ELSE FirstRaise([i \in 1..Len(stats.l) |-> Get(stats.l[i], "name", None)])

\* lines 175-197: the current-record line
RecordSection(data) ==
    LET record_items == Get(Get(TeamOf(data), "record", EmptyDict), "items", EmptyList)
    IN  IF IsRaise(record_items) THEN Section(<<>>, record_items)
        ELSE IF ~Truthy(record_items) THEN Section(<<"Current Record: N/A">>, None)
        ELSE IF record_items.t # "list" THEN Section(<<>>, Raise("TypeError"))
        ELSE LET found == FindOverall(record_items.l, 1)
             IN  IF IsRaise(found) THEN Section(<<>>, found)
                 ELSE IF found.v = 0
                 THEN Section(<<"Current Record: "
                                \o Str(Get(record_items.l[1], "summary", PyStr("N/A")))>>, None)
                 ELSE LET item == record_items.l[found.v]
                      IN  Section(<<"Current Record: " \o Str(Get(item, "summary", PyStr("N/A")))>>,
                                  StatsLoop(Get(item, "stats", EmptyList)))

\* competition.get('status', {}).get('type', {}).get('name', '') of the event's
\* first competition
StatusType(event) ==
    LET competitions == Get(event, "competitions", EmptyList)
    IN  Get(Get(Get(competitions.l[1], "status", EmptyDict), "type", EmptyDict), "name", PyStr(""))

\* if not competitions: continue
HasCompetition(event) ==
    LET competitions == Get(event, "competitions", EmptyList)
    IN  ~IsRaise(competitions) /\ Truthy(competitions)

\* for comp in competitors: comp.get('homeAway'), comp.get('team', {}).get('id'):
\* the first exception the loop raises, None when it ends
CompetitorsRaise(competitors) ==
    FirstRaise([i \in 1..Len(competitors) |->
                  IF IsRaise(Get(competitors[i], "homeAway", None))
                  THEN Get(competitors[i], "homeAway", None)
                  ELSE Get(Get(competitors[i], "team", EmptyDict), "id", None)])

\* the last competitor the loop assigns to `ours` (ours = TRUE) or to the
\* opponent (ours = FALSE), None when it assigns none
RECURSIVE LastSide(_, _, _)
LastSide(competitors, our_team_id, ours) ==
    IF competitors = <<>> THEN None
    ELSE LET comp == competitors[Len(competitors)]
             id == Get(Get(comp, "team", EmptyDict), "id", None)
         IN  IF IsRaise(id) THEN id
             ELSE IF PyEq(id, our_team_id) = ours THEN comp
             ELSE LastSide(SubSeq(competitors, 1, Len(competitors) - 1), our_team_id, ours)

\* the last competitor whose homeAway is 'home' (home = TRUE) or is not
RECURSIVE LastHomeAway(_, _)
LastHomeAway(competitors, home) ==
    IF competitors = <<>> THEN None
    ELSE LET comp == competitors[Len(competitors)]
             ha == Get(comp, "homeAway", None)
         IN  IF IsRaise(ha) THEN ha
             ELSE IF IsStr(ha, "home") = home THEN comp
             ELSE LastHomeAway(SubSeq(competitors, 1, Len(competitors) - 1), home)

\* the result with a tie counted as a win
GameResultTieWins(our_score, opp_score) == IF our_score >= opp_score THEN "W" ELSE "L"

\* lines 259-263
GameResult(our_score, opp_score) == IF our_score > opp_score THEN "W" ELSE "L"

\* lines 235-281: the entry of one completed game
GameEntry(event, our_team_info, opponent_info) ==
    LET our_score == Score(Get(our_team_info, "score", PyInt(0)))
        opp_score == Score(Get(opponent_info, "score", PyInt(0)))
        opp_name == Get(Get(opponent_info, "team", EmptyDict), "displayName", PyStr("Unknown"))
        opp_rank == Get(Get(opponent_info, "curatedRank", EmptyDict), "current", PyInt(0))
        is_home == IsStr(Get(our_team_info, "homeAway", None), "home")
        opp_display == RankDisplay(opp_rank, opp_name, "(UR)")
        raised == FirstRaise(<<our_score, opp_score, opp_display>>)
    IN  IF raised # None THEN raised
        ELSE PyDict([date |-> GameDate(Get(event, "date", PyStr(""))),
                     result |-> GameResult(our_score.v, opp_score.v),
                     score |-> Str(our_score) \o "-" \o Str(opp_score),
                     opponent |-> opp_display.v,
                     location |-> IF is_home THEN "vs" ELSE "@"])

\* the status test that also takes a postponed game for a completed one
IsCompletedOrPostponed(status_type) ==
    IsStr(status_type, "STATUS_FINAL") \/ IsStr(status_type, "STATUS_POSTPONED")

\* if status_type == 'STATUS_FINAL'
IsCompleted(status_type) == IsStr(status_type, "STATUS_FINAL")

\* if our_team_info and opponent_info
SidesFound(our_team_info, opponent_info) == Truthy(our_team_info) /\ Truthy(opponent_info)

\* lines 204-281: one turn of the loop over events: the games so far, with this
\* event's entry appended when it is completed and both sides were found
ResultsStep(games, event, team) ==
    IF IsRaise(Get(event, "competitions", EmptyList)) THEN Get(event, "competitions", EmptyList)
    ELSE IF ~HasCompetition(event) THEN games
    ELSE LET status_type == StatusType(event)
             competitors == Get(Get(event, "competitions", EmptyList).l[1], "competitors", EmptyList)
             our_team_id == Get(team, "id", None)
         IN  IF IsRaise(status_type) THEN status_type
             ELSE IF ~IsCompleted(status_type) THEN games
             ELSE IF IsRaise(competitors) THEN competitors
             ELSE IF competitors.t # "list" THEN Raise("TypeError")
             ELSE IF CompetitorsRaise(competitors.l) # None THEN CompetitorsRaise(competitors.l)
             ELSE LET our_team_info == LastSide(competitors.l, our_team_id, TRUE)
                      opponent_info == LastSide(competitors.l, our_team_id, FALSE)
                  IN  IF FirstRaise(<<our_team_info, opponent_info>>) # None
                      THEN FirstRaise(<<our_team_info, opponent_info>>)
                      ELSE IF ~SidesFound(our_team_info, opponent_info) THEN games
                      ELSE LET entry == GameEntry(event, our_team_info, opponent_info)
                           IN  IF IsRaise(entry) THEN entry ELSE PyList(Append(games.l, entry))

\* for event in events: ... completed_games.append(...)
RECURSIVE CompletedGames(_, _, _)
CompletedGames(games, events, team) ==
    IF IsRaise(games) \/ events = <<>> THEN games
    ELSE CompletedGames(ResultsStep(games, Head(events), team), Tail(events), team)

GameLine(game) ==
    "   " \o game.d.date \o "  " \o game.d.result \o "  " \o PadLeft(game.d.score, 7)
    \o " " \o game.d.location \o " " \o game.d.opponent

\* lines 199-289: the season-results block
ResultsSection(games) ==
    IF IsRaise(games) THEN Section(<<>>, games)
    ELSE IF Truthy(games)
    THEN Section(<<"SEASON RESULTS">> \o [i \in 1..Len(games.l) |-> GameLine(games.l[i])], None)
    ELSE Section(<<"No games completed yet this season">>, None)

\* events = schedule_data.get('events', []), as the sequence a for loop walks
EventsOf(schedule) ==
    LET events == Get(schedule, "events", EmptyList)
    IN  IF IsRaise(events) THEN events
        ELSE IF events.t # "list" THEN Raise("TypeError")
        ELSE events

\* the season-results list display_team_info builds from the schedule
completed_games_of(schedule, team) ==
    LET events == EventsOf(schedule)
    IN  IF IsRaise(events) THEN events ELSE CompletedGames(EmptyList, events.l, team)

\* the scan that takes a postponed game for the next one
RECURSIVE NextGameScanPostponed(_)
NextGameScanPostponed(events) ==
    IF events = <<>> THEN None
    ELSE IF IsRaise(Get(Head(events), "competitions", EmptyList))
    THEN Get(Head(events), "competitions", EmptyList)
    ELSE IF ~HasCompetition(Head(events)) THEN NextGameScanPostponed(Tail(events))
    ELSE LET status_type == StatusType(Head(events))
         IN  IF IsRaise(status_type) THEN status_type
             ELSE IF ~IsStr(status_type, "STATUS_FINAL") THEN Head(events)
             ELSE NextGameScanPostponed(Tail(events))

\* lines 129-142: the first event with a competition whose status is neither
\* STATUS_FINAL nor STATUS_POSTPONED
RECURSIVE NextGameScan(_)
NextGameScan(events) ==
    IF events = <<>> THEN None
    ELSE IF IsRaise(Get(Head(events), "competitions", EmptyList))
    THEN Get(Head(events), "competitions", EmptyList)
    ELSE IF ~HasCompetition(Head(events)) THEN NextGameScan(Tail(events))
    ELSE LET status_type == StatusType(Head(events))
         IN  IF IsRaise(status_type) THEN status_type
             ELSE IF ~IsStr(status_type, "STATUS_FINAL") /\ ~IsStr(status_type, "STATUS_POSTPONED")
             THEN Head(events)
             ELSE NextGameScan(Tail(events))

\* find_next_game without the test of line 124
FindNextGameNoGuard(schedule) ==
    LET events == EventsOf(schedule)
    IN  IF IsRaise(events) THEN events ELSE NextGameScan(events.l)

\* find_next_game(schedule_data)
find_next_game(schedule) ==
    IF ~Truthy(schedule) THEN None
    ELSE LET events == EventsOf(schedule)
         IN  IF IsRaise(events) THEN events ELSE NextGameScan(events.l)

RECURSIVE JoinStr(_, _)
\* sep.join(parts) for strings
JoinStr(sep, parts) ==
    IF parts = <<>> THEN ""
    ELSE IF Len(parts) = 1 THEN parts[1]
    ELSE parts[1] \o sep \o JoinStr(sep, Tail(parts))

RECURSIVE Networks(_)
\* networks.extend(broadcast.get('names', [])) over the broadcasts
Networks(broadcasts) ==
    IF broadcasts = <<>> THEN <<>>
    ELSE LET names == Get(Head(broadcasts), "names", EmptyList)
         IN  [i \in 1..Len(names.l) |-> Str(names.l[i])] \o Networks(Tail(broadcasts))

\* lines 314-337: the opponent and location entries
MatchupLines(home_team, away_team, our_team_id) ==
    LET home_name == Get(Get(home_team, "team", EmptyDict), "displayName", PyStr("Unknown"))
        away_name == Get(Get(away_team, "team", EmptyDict), "displayName", PyStr("Unknown"))
        home_rank == Get(Get(home_team, "curatedRank", EmptyDict), "current", PyInt(0))
        away_rank == Get(Get(away_team, "curatedRank", EmptyDict), "current", PyInt(0))
        home_display == RankDisplay(home_rank, home_name, "(UR)")
        away_display == RankDisplay(away_rank, away_name, "UR")
        raised == FirstRaise(<<home_display, away_display>>)
    IN  IF raised # None THEN Section(<<>>, raised)
        ELSE IF PyEq(Get(Get(home_team, "team", EmptyDict), "id", None), our_team_id)
        THEN Section(<<"   Opponent: " \o away_display.v, "   Location: Home">>, None)
        ELSE Section(<<"   Opponent: " \o home_display.v,
                       "   Location: Away @ " \o Str(home_name)>>, None)

\* lines 345-354: the venue entries
VenueLines(competition) ==
    LET venue == Get(competition, "venue", EmptyDict)
        venue_name == Get(venue, "fullName", PyStr(""))
        city == Get(Get(venue, "address", EmptyDict), "city", PyStr(""))
        state == Get(Get(venue, "address", EmptyDict), "state", PyStr(""))
    IN  IF ~Truthy(venue) \/ ~Truthy(venue_name) THEN <<>>
        ELSE <<"   Venue: " \o Str(venue_name)>>
             \o (IF Truthy(city) /\ Truthy(state)
                 THEN <<"          " \o Str(city) \o ", " \o Str(state)>> ELSE <<>>)

\* lines 356-364: the broadcast entry
BroadcastLines(competition) ==
    LET broadcasts == Get(competition, "broadcasts", EmptyList)
    IN  IF ~Truthy(broadcasts) \/ Networks(broadcasts.l) = <<>> THEN <<>>
        ELSE <<"TV: " \o JoinStr(", ", Networks(broadcasts.l))>>

\* lines 294-368: the next-game block
NextGameSection(game, team) ==
    IF IsRaise(game) THEN Section(<<>>, game)
    ELSE IF ~Truthy(game)
    THEN Section(<<"No upcoming games scheduled",
                   "   The season may have ended or the schedule is not yet available.">>, None)
    ELSE LET competitions == Get(game, "competitions", EmptyList)
         IN  IF ~Truthy(competitions) THEN Section(<<"NEXT GAME">>, None)
             ELSE LET competition == competitions.l[1]
                      competitors == Get(competition, "competitors", EmptyList)
                      home_team == LastHomeAway(competitors.l, TRUE)
                      away_team == LastHomeAway(competitors.l, FALSE)
                      matchup == IF Truthy(home_team) /\ Truthy(away_team)
                                 THEN MatchupLines(home_team, away_team, Get(team, "id", None))
                                 ELSE Section(<<>>, None)
                      date_str == Get(game, "date", PyStr(""))
                  IN  IF matchup.e # None THEN Section(<<"NEXT GAME">>, matchup.e)
                      ELSE Section(<<"NEXT GAME">> \o matchup.lines
                                   \o (IF Truthy(date_str)
                                       THEN <<"   Date/Time: " \o format_datetime(date_str)>>
                                       ELSE <<>>)
                                   \o VenueLines(competition) \o BroadcastLines(competition), None)

\* the sections run one after the other, stopping at the first exception
RECURSIVE RunSections(_)
RunSections(sections) ==
    IF sections = <<>> THEN Section(<<>>, None)
    ELSE IF Head(sections).e # None THEN Head(sections)
    ELSE LET rest == RunSections(Tail(sections))
         IN  Section(Head(sections).lines \o rest.lines, rest.e)

\* display_team_info that goes on to the schedule when there is no profile
DisplayWithoutProfile(data, schedule) ==
    LET team == IF Truthy(data) THEN TeamOf(data) ELSE EmptyDict
    IN  RunSections(
          (IF ~Truthy(data) THEN <<Section(<<"Could not retrieve team information">>, None)>>
           ELSE <<HeaderSection(data), RecordSection(data)>>)
          \o (IF Truthy(schedule) THEN <<ResultsSection(completed_games_of(schedule, team))>>
              ELSE <<>>)
          \o <<NextGameSection(find_next_game(schedule), team)>>)

\* display_team_info(team_data, schedule_data)
display_team_info(data, schedule) ==
    IF ~Truthy(data) THEN Section(<<"Could not retrieve team information">>, None)
    ELSE RunSections(
           <<HeaderSection(data), RecordSection(data)>>
           \o (IF Truthy(schedule) THEN <<ResultsSection(completed_games_of(schedule, TeamOf(data)))>>
               ELSE <<>>)
           \o <<NextGameSection(find_next_game(schedule), TeamOf(data))>>)
-----------------------------------------------------------------------------
\* main()

\* the number of names the help text lists before "... and N more"
HelpExamples == 15

\* len(TEAM_IDS) - 15
HelpMoreCount == TeamCount - HelpExamples

\* the help count taken as the size of the table
HelpMoreLineWholeTable == "   ... and " \o ToString(TeamCount) \o " more"

\* line 400
HelpMoreLine == "   ... and " \o ToString(HelpMoreCount) \o " more"

RECURSIVE HelpExampleLines(_)
\* lines 396-399: the first names of the table, title-cased, three to a line
HelpExampleLines(examples) ==
    IF examples = <<>> THEN <<>>
    ELSE LET n == IF Len(examples) < 3 THEN Len(examples) ELSE 3
             line == [i \in 1..n |-> Concat(Title(examples[i]))]
         IN  <<"   " \o JoinStr(", ", line)>> \o HelpExampleLines(SubSeq(examples, n + 1, Len(examples)))

\* lines 393-401
HelpLines(name) ==
    LET n == IF Len(TEAM_IDS) < HelpExamples THEN Len(TEAM_IDS) ELSE HelpExamples
    IN  <<"Team '" \o Concat(name) \o "' not found in database.", "Supported teams include:">>
        \o HelpExampleLines([i \in 1..n |-> TEAM_IDS[i][1]])
        \o <<HelpMoreLine, "Try one of these team names.">>

Request(endpoint, id) == [endpoint |-> endpoint, id |-> id, timeout |-> 10]

Init ==
    /\ pc = "start"
    /\ team_name = <<>>
    /\ team_id = None
    /\ team_data = None
    /\ schedule_data = None
    /\ requests = <<>>
    /\ completed_games = Absent
    /\ next_game = Absent
    /\ out = <<>>
    /\ exc = None

\* lines 375-379: the name is given on the command line
ReadArgv(inputs) ==
    /\ pc = "start"
    /\ \E args \in inputs : team_name' = Join(<<" ">>, args)
    /\ out' = Append(out, "College Football Team Checker")
    /\ pc' = "name"
    /\ UNCHANGED <<team_id, team_data, schedule_data, requests, completed_games, next_game, exc>>

\* lines 375-381: the name is typed at the prompt
ReadInput(inputs) ==
    /\ pc = "start"
    /\ \E line \in inputs : team_name' = Strip(line)
    /\ out' = out \o <<"College Football Team Checker", "Enter your college football team: ">>
    /\ pc' = "name"
    /\ UNCHANGED <<team_id, team_data, schedule_data, requests, completed_games, next_game, exc>>

\* lines 383-385
NoName ==
    /\ pc = "name"
    /\ team_name = <<>>
    /\ out' = Append(out, "No team name provided. Exiting.")
    /\ pc' = "done"
    /\ UNCHANGED <<team_name, team_id, team_data, schedule_data, requests, completed_games, next_game, exc>>

\* lines 387-402: the name is not in the table
ResolveNotFound ==
    /\ pc = "name"
    /\ team_name # <<>>
    /\ ~Truthy(get_team_id(team_name))
    /\ team_id' = get_team_id(team_name)
    /\ out' = Append(out, "Searching for '" \o Concat(team_name) \o "'...") \o HelpLines(team_name)
    /\ pc' = "done"
    /\ UNCHANGED <<team_name, team_data, schedule_data, requests, completed_games, next_game, exc>>

\* lines 387-405: the name is in the table
ResolveFound ==
    /\ pc = "name"
    /\ team_name # <<>>
    /\ Truthy(get_team_id(team_name))
    /\ team_id' = get_team_id(team_name)
    /\ out' = out \o <<"Searching for '" \o Concat(team_name) \o "'...",
                       "Found team (ID: " \o Str(get_team_id(team_name)) \o ")",
                       "Fetching team information...">>
    /\ pc' = "get_team_data"
    /\ UNCHANGED <<team_name, team_data, schedule_data, requests, completed_games, next_game, exc>>

\* line 408, get_team_data (lines 88-102)
GetTeamData ==
    /\ pc = "get_team_data"
    /\ \E resp \in ProfileResponses(team_id) :
         /\ team_data' = FetchResult(resp)
         /\ out' = IF resp.kind = "ok" THEN out
                   ELSE Append(out, "Error fetching team data: " \o FetchError(resp))
    /\ requests' = Append(requests, Request("profile", team_id))
    /\ pc' = "get_team_schedule"
    /\ UNCHANGED <<team_name, team_id, schedule_data, completed_games, next_game, exc>>

\* get_team_schedule that asks a second time when the first request fails
GetTeamScheduleRetry ==
    /\ pc = "get_team_schedule"
    /\ \E resp \in ScheduleResponses(team_id) :
         /\ schedule_data' = FetchResult(resp)
         /\ out' = IF resp.kind = "ok" THEN out
                   ELSE Append(out, "Error fetching schedule: " \o FetchError(resp))
         /\ requests' = IF resp.kind = "ok" THEN Append(requests, Request("schedule", team_id))
                        ELSE requests \o <<Request("schedule", team_id), Request("schedule", team_id)>>
    /\ pc' = "display_team_info"
    /\ UNCHANGED <<team_name, team_id, team_data, completed_games, next_game, exc>>

\* line 409, get_team_schedule (lines 105-119)
GetTeamSchedule ==
    /\ pc = "get_team_schedule"
    /\ \E resp \in ScheduleResponses(team_id) :
         /\ schedule_data' = FetchResult(resp)
         /\ out' = IF resp.kind = "ok" THEN out
                   ELSE Append(out, "Error fetching schedule: " \o FetchError(resp))
    /\ requests' = Append(requests, Request("schedule", team_id))
    /\ pc' = "display_team_info"
    /\ UNCHANGED <<team_name, team_id, team_data, completed_games, next_game, exc>>

\* the value of the local completed_games when display_team_info ends or raises:
\* Absent when the loop that builds it was not reached
CompletedGamesLocal(data, schedule) ==
    IF Truthy(data) /\ Truthy(schedule)
       /\ RunSections(<<HeaderSection(data), RecordSection(data)>>).e = None
    THEN completed_games_of(schedule, TeamOf(data))
    ELSE Absent

\* the value of the local next_game: Absent when line 292 was not reached
NextGameLocal(data, schedule) ==
    IF Truthy(data) /\ RunSections(<<HeaderSection(data), RecordSection(data)>>).e = None
       /\ ~IsRaise(CompletedGamesLocal(data, schedule))
    THEN find_next_game(schedule)
    ELSE Absent

\* line 412, display_team_info (lines 155-370)
DisplayTeamInfo ==
    /\ pc = "display_team_info"
    /\ \E shown \in {display_team_info(team_data, schedule_data)} :
         /\ out' = out \o shown.lines
         /\ exc' = shown.e
         /\ pc' = IF shown.e = None THEN "done" ELSE "raised"
    /\ completed_games' = CompletedGamesLocal(team_data, schedule_data)
    /\ next_game' = NextGameLocal(team_data, schedule_data)
    /\ UNCHANGED <<team_name, team_id, team_data, schedule_data, requests>>

Next ==
    \/ ReadArgv(ArgvInputs)
    \/ ReadInput(StdinLines)
    \/ NoName
    \/ ResolveNotFound
    \/ ResolveFound
    \/ GetTeamData
    \/ GetTeamSchedule
    \/ DisplayTeamInfo

Spec == Init /\ [][Next]_vars

\* main() up to the resolution of the name, over every name of NameWords
NextNames ==
    \/ ReadArgv({<<w>> : w \in NameWords})
    \/ ReadInput(NameWords)
    \/ NoName
    \/ ResolveNotFound
    \/ ResolveFound

SpecNames == Init /\ [][NextNames]_vars

-----------------------------------------------------------------------------
\* What the properties below read off a state.  These are stated from the
\* documents themselves, not through the operators that model the code.

Printed(line) == \E i \in 1..Len(out) : out[i] = line

\* display_team_info was called in this run and has returned or raised
DisplayRan == pc \in {"done", "raised"} /\ Len(requests) = 2

HasKey(v, k) == v.t = "dict" /\ k \in DOMAIN v.d

\* the events of the schedule document, none when there is no document
ScheduleEvents ==
    IF HasKey(schedule_data, "events") /\ schedule_data.d.events.t = "list"
    THEN schedule_data.d.events.l ELSE <<>>

HasComp(e) == HasKey(e, "competitions") /\ Len(e.d.competitions.l) > 0
FirstComp(e) == e.d.competitions.l[1]

\* the status name of an event that has a competition: "" when the document
\* gives none, "null" when the status object is null
StatusName(e) ==
    IF ~HasKey(FirstComp(e), "status") THEN ""
    ELSE IF FirstComp(e).d.status.t # "dict" THEN "null"
    ELSE FirstComp(e).d.status.d.type.d.name.v

IsFinalEvent(e) == HasComp(e) /\ StatusName(e) = "STATUS_FINAL"
IsScheduledEvent(e) == HasComp(e) /\ StatusName(e) = "STATUS_SCHEDULED"
Qualifies(e) == HasComp(e) /\ StatusName(e) \notin {"STATUS_FINAL", "STATUS_POSTPONED"}

CompetitorsOf(e) == FirstComp(e).d.competitors.l
CompId(c) == IF HasKey(c.d.team, "id") THEN c.d.team.d.id ELSE None
CompName(c) == c.d.team.d.displayName.v
CompRank(c) == c.d.curatedRank.d.current

ProfileTeam == team_data.d.team
OurId == IF HasKey(ProfileTeam, "id") THEN ProfileTeam.d.id ELSE None

HasOurs(e) == \E i \in 1..Len(CompetitorsOf(e)) : CompId(CompetitorsOf(e)[i]) = OurId
HasOpponent(e) == \E i \in 1..Len(CompetitorsOf(e)) : CompId(CompetitorsOf(e)[i]) # OurId
OursOf(e) == CompetitorsOf(e)[CHOOSE i \in 1..Len(CompetitorsOf(e)) : CompId(CompetitorsOf(e)[i]) = OurId]
OpponentOf(e) == CompetitorsOf(e)[CHOOSE i \in 1..Len(CompetitorsOf(e)) : CompId(CompetitorsOf(e)[i]) # OurId]

\* a completed game with both sides identified
Listed(e) == IsFinalEvent(e) /\ HasOurs(e) /\ HasOpponent(e)
ListedEvents == SelectSeq(ScheduleEvents, Listed)

\* the rank rule as the specification words it
Fmt(r, name, unranked) ==
    IF r >= 1 /\ r <= 25 THEN "#" \o ToString(r) \o " " \o name ELSE unranked \o " " \o name

\* the integer a score stands for: the number itself, the whole part of a
\* decimal, the digits before the point of a numeric text, unwrapped first
WholeOf(v) ==
    LET inner == IF v.t = "dict" THEN v.d.value ELSE v
    IN  CASE inner.t = "int" -> inner.v
          [] inner.t = "float" -> inner.whole
          [] inner.t = "text" ->
               LET dots == {i \in 1..Len(inner.v) : inner.v[i] = "."}
                   upto == IF dots = {} THEN Len(inner.v) ELSE (CHOOSE i \in dots : TRUE) - 1
               IN  DigitsValue(SubSeq(inner.v, 1, upto))
OwnScore(e) == WholeOf(IF HasKey(OursOf(e), "score") THEN OursOf(e).d.score ELSE PyInt(0))
OppScore(e) == WholeOf(IF HasKey(OpponentOf(e), "score") THEN OpponentOf(e).d.score ELSE PyInt(0))

\* the season-results list was built
GamesBuilt == completed_games # Absent /\ ~IsRaise(completed_games)

\* Documents of the documented shape: every field that is given has the type
\* the interface names (an object where an object is expected, an integer
\* rank, a score that is a number, numeric text, or either wrapped in "value").

IsNumericText(chars) ==
    /\ \E i \in 1..Len(chars) : IsDigit(chars[i])
    /\ \A i \in 1..Len(chars) : IsDigit(chars[i]) \/ chars[i] = "."
    /\ Cardinality({i \in 1..Len(chars) : chars[i] = "."}) <= 1
IsNumeric(v) == v.t \in {"int", "float"} \/ (v.t = "text" /\ IsNumericText(v.v))
ScoreWellFormed(c) ==
    ~HasKey(c, "score") \/ IsNumeric(c.d.score)
    \/ (HasKey(c.d.score, "value") /\ IsNumeric(c.d.score.d.value))
StatusWellFormed(e) ==
    ~HasComp(e) \/ ~HasKey(FirstComp(e), "status") \/ FirstComp(e).d.status.t = "dict"
EventWellFormed(e) ==
    /\ StatusWellFormed(e)
    /\ HasComp(e) => \A i \in 1..Len(CompetitorsOf(e)) :
                       /\ ScoreWellFormed(CompetitorsOf(e)[i])
                       /\ CompRank(CompetitorsOf(e)[i]).t = "int"
EventsListed ==
    schedule_data.t = "dict" /\ (HasKey(schedule_data, "events") => schedule_data.d.events.t = "list")
StatusesWellFormed ==
    schedule_data = None
    \/ (EventsListed /\ \A i \in 1..Len(ScheduleEvents) : StatusWellFormed(ScheduleEvents[i]))
ScheduleWellFormed ==
    schedule_data = None
    \/ (EventsListed /\ \A i \in 1..Len(ScheduleEvents) : EventWellFormed(ScheduleEvents[i]))
RecordWellFormed(record) ==
    /\ record.t = "dict"
    /\ HasKey(record, "items")
         => /\ record.d.items.t = "list"
            /\ \A i \in 1..Len(record.d.items.l) :
                 /\ record.d.items.l[i].t = "dict"
                 /\ HasKey(record.d.items.l[i], "stats") => record.d.items.l[i].d.stats.t = "list"
ProfileWellFormed ==
    /\ team_data.t = "dict"
    /\ HasKey(team_data, "team")
         => /\ team_data.d.team.t = "dict"
            /\ HasKey(team_data.d.team, "rank") => team_data.d.team.d.rank.t = "int"
            /\ HasKey(team_data.d.team, "record") => RecordWellFormed(team_data.d.team.d.record)

-----------------------------------------------------------------------------
C2_DisplayNeverRaises == pc # "raised" /\ exc = None

\* C3: for every sequence of events (each status a status object or not given),
\* find_next_game returns none if no event has a competition whose status is
\* neither Final nor Postponed, and otherwise the first such event in document
\* order: never a Final or Postponed one, never a later one.
C3_FindNextGameFirstQualifying ==
    (next_game # Absent /\ StatusesWellFormed)
    => LET q == {i \in 1..Len(ScheduleEvents) : Qualifies(ScheduleEvents[i])}
       IN  IF q = {} THEN next_game = None
           ELSE \E i \in q : next_game = ScheduleEvents[i] /\ \A j \in q : i <= j

C3_Witness ==
    /\ next_game # Absent /\ next_game.t = "dict"
    /\ Len(ScheduleEvents) = 2
    /\ HasComp(ScheduleEvents[1]) /\ StatusName(ScheduleEvents[1]) = "STATUS_POSTPONED"
    /\ next_game = ScheduleEvents[2]
    /\ Printed("NEXT GAME")

\* C4: the season-results list holds, in document order, exactly one entry for
\* each event whose status is Final and in which one competitor's team id is ours
\* and another's is not; no other event contributes an entry.
C4_ResultsAreTheListedEvents ==
    (completed_games # Absent /\ ScheduleWellFormed)
    => /\ ~IsRaise(completed_games)
       /\ Len(completed_games.l) = Len(ListedEvents)
       /\ \A k \in 1..Len(ListedEvents) :
            /\ completed_games.l[k].d.score
                 = ToString(OwnScore(ListedEvents[k])) \o "-" \o ToString(OppScore(ListedEvents[k]))
            /\ completed_games.l[k].d.location
                 = (IF OursOf(ListedEvents[k]).d.homeAway.v = "home" THEN "vs" ELSE "@")

C4_Witness ==
    /\ GamesBuilt /\ pc = "done"
    /\ Len(ScheduleEvents) = 2 /\ Len(completed_games.l) = 1
    /\ IsFinalEvent(ScheduleEvents[1]) /\ ~HasOpponent(ScheduleEvents[1])
    /\ Listed(ScheduleEvents[2])
    /\ Printed("SEASON RESULTS")

\* a == b up to the case of a letter
SameLetter(a, b) ==
    a = b \/ \E i \in 1..Len(UpperCase) : {a, b} = {UpperCase[i], LowerCase[i]}
\* the name is the key, letter for letter, whatever the case
MatchesKey(name, key) ==
    Len(name) = Len(key) /\ \A i \in 1..Len(name) : SameLetter(name[i], key[i])
Known(name) == \E r \in 1..Len(TEAM_IDS) : MatchesKey(name, TEAM_IDS[r][1])

\* main has called get_team_id
Resolved == team_name # <<>> /\ pc \notin {"start", "name"}

\* C5: get_team_id is a case-insensitive exact match: a name that equals a key up
\* to letter case gets that key's identifier ("Navy" and "navy" get "2426"), and
\* every other name - a prefix, a substring, a padded form - gets not-found.
C5_CaseInsensitiveExactMatch ==
    Resolved
    => /\ \A r \in 1..Len(TEAM_IDS) :
            MatchesKey(team_name, TEAM_IDS[r][1]) => team_id = PyStr(TEAM_IDS[r][2])
       /\ ~Known(team_name) => team_id = None
       /\ MatchesKey(team_name, navy) => team_id = PyStr("2426")

C5_Witness == Resolved /\ team_name = Navy /\ team_id = PyStr("2426") /\ pc = "get_team_data"

\* C6: a name that is not in the table ends the run: no profile request, no
\* schedule request, display_team_info never entered, and the help text counts
\* "and N more" with N the number of table entries less 15.
C6_NotFoundIsTerminal ==
    (pc # "start" /\ ~Known(team_name))
    => /\ requests = <<>>
       /\ pc \in {"name", "done"}
       /\ completed_games = Absent /\ next_game = Absent /\ exc = None
       /\ ~Printed("Could not retrieve team information")
       /\ (pc = "done" /\ team_name # <<>>)
            => /\ out[Len(out) - 1] = "   ... and " \o ToString(Len(TEAM_IDS) - 15) \o " more"
               /\ out[Len(out)] = "Try one of these team names."

C6_Witness ==
    /\ pc = "done" /\ team_name = <<"n","a","v">> /\ team_id = None
    /\ Printed("Team 'nav' not found in database.")
    /\ Printed("   ... and 47 more")

\* C7: with a known name exactly one profile request and then exactly one schedule
\* request are issued, both with the resolved identifier, the second whether or
\* not the first succeeded, none repeated; display_team_info starts after both.
C7_OneProfileThenOneSchedule ==
    /\ pc = "get_team_data" => requests = <<>>
    /\ pc = "get_team_schedule"
         => requests = <<[endpoint |-> "profile", id |-> team_id, timeout |-> 10]>>
    /\ (pc \in {"display_team_info", "raised"} \/ (pc = "done" /\ Known(team_name)))
         => requests = <<[endpoint |-> "profile", id |-> team_id, timeout |-> 10],
                         [endpoint |-> "schedule", id |-> team_id, timeout |-> 10]>>
    /\ requests # <<>>
         => Known(team_name) /\ \E r \in 1..Len(TEAM_IDS) :
              MatchesKey(team_name, TEAM_IDS[r][1]) /\ team_id = PyStr(TEAM_IDS[r][2])
    /\ (completed_games # Absent \/ next_game # Absent \/ exc # None
          \/ Printed("Could not retrieve team information"))
         => Len(requests) = 2

C7_Witness ==
    /\ pc = "done" /\ team_data = None /\ schedule_data = None
    /\ Len(requests) = 2 /\ requests[1].endpoint = "profile" /\ requests[2].endpoint = "schedule"
    /\ requests[2].id = PyStr("194")
    /\ Printed("Error fetching team data: Read timed out")
    /\ Printed("Error fetching schedule: 404 Error")

\* the profile's rank when it is an integer, 0 when the profile gives none
ProfileRank == IF HasKey(ProfileTeam, "rank") THEN ProfileTeam.d.rank.v ELSE 0
ProfileName == IF HasKey(ProfileTeam, "displayName") THEN ProfileTeam.d.displayName.v ELSE "Unknown Team"

\* C8: when the schedule fetch fails and the profile fetch succeeds, the failure
\* does not abort the run: display_team_info prints no season-results block, and
\* with a profile document of the documented shape it prints the header, the
\* current-record line and the "No upcoming games scheduled" message and reaches
\* its end; no exception is raised once the schedule is looked at.
C8_ScheduleFailureIsNoData ==
    (DisplayRan /\ Truthy(team_data) /\ schedule_data = None)
    => /\ completed_games = Absent
       /\ ~Printed("SEASON RESULTS") /\ ~Printed("No games completed yet this season")
       /\ ~Printed("NEXT GAME")
       /\ ProfileWellFormed
            => /\ pc = "done" /\ exc = None /\ next_game = None
               /\ out[Len(out) - 3] = "  " \o Fmt(ProfileRank, ProfileName, "(UR)")
               /\ \E s \in {"7-2", "6-3", "4-1", "N/A"} :
                    out[Len(out) - 2] = "Current Record: " \o s
               /\ out[Len(out) - 1] = "No upcoming games scheduled"
       /\ pc = "raised" => next_game = Absent

C8_Witness ==
    /\ DisplayRan /\ pc = "done" /\ Truthy(team_data) /\ schedule_data = None
    /\ Printed("Error fetching schedule: Read timed out")
    /\ Printed("  #12 Team") /\ Printed("Current Record: 7-2")
    /\ out[Len(out) - 1] = "No upcoming games scheduled"

HomeOf(e) == CompetitorsOf(e)[CHOOSE i \in 1..Len(CompetitorsOf(e)) : CompetitorsOf(e)[i].d.homeAway.v = "home"]
AwayOf(e) == CompetitorsOf(e)[CHOOSE i \in 1..Len(CompetitorsOf(e)) : CompetitorsOf(e)[i].d.homeAway.v # "home"]

\* C9: an integer rank r is shown as "#r NAME" when 1 <= r <= 25 and as "(UR) NAME"
\* otherwise, in the team header, for a season-results opponent and for the
\* next-game home team; the next-game away team, unranked, is shown as "UR NAME".
C9_RankFormatting ==
    /\ (DisplayRan /\ pc = "done" /\ Truthy(team_data))
         => Printed("  " \o Fmt(ProfileRank, ProfileName, "(UR)"))
    /\ GamesBuilt
         => \A k \in 1..Len(ListedEvents) :
              k <= Len(completed_games.l)
              /\ completed_games.l[k].d.opponent
                   = Fmt(CompRank(OpponentOf(ListedEvents[k])).v,
                         CompName(OpponentOf(ListedEvents[k])), "(UR)")
    /\ (pc = "done" /\ next_game # Absent /\ next_game.t = "dict")
         => IF CompId(HomeOf(next_game)) = OurId
            THEN Printed("   Opponent: " \o Fmt(CompRank(AwayOf(next_game)).v,
                                               CompName(AwayOf(next_game)), "UR"))
            ELSE Printed("   Opponent: " \o Fmt(CompRank(HomeOf(next_game)).v,
                                               CompName(HomeOf(next_game)), "(UR)"))

C9_Witness ==
    /\ pc = "done" /\ GamesBuilt /\ next_game # Absent /\ next_game.t = "dict"
    /\ Printed("  (UR) Team")
    /\ Len(completed_games.l) = 1 /\ completed_games.l[1].d.opponent = "#12 Opp"
    /\ Printed("   Opponent: UR Opp")

\* C10: each side's score of a listed game is the integer its source value
\* stands for, bare or wrapped (21 and {"value": "14.0"} give 21-14), and the
\* result is W exactly when our score is strictly greater; equal scores give L.
C10_ScoreAndResult ==
    GamesBuilt
    => \A k \in 1..Len(ListedEvents) :
         /\ k <= Len(completed_games.l)
         /\ completed_games.l[k].d.score
              = ToString(OwnScore(ListedEvents[k])) \o "-" \o ToString(OppScore(ListedEvents[k]))
         /\ completed_games.l[k].d.result = "W" <=> OwnScore(ListedEvents[k]) > OppScore(ListedEvents[k])
         /\ completed_games.l[k].d.result = "L" <=> OwnScore(ListedEvents[k]) <= OppScore(ListedEvents[k])

C10_Witness ==
    /\ GamesBuilt /\ pc = "done" /\ Len(completed_games.l) = 2
    /\ completed_games.l[1].d.score = "21-14" /\ completed_games.l[1].d.result = "W"
    /\ completed_games.l[2].d.score = "21-21" /\ completed_games.l[2].d.result = "L"
    /\ OursOf(ListedEvents[1]).d.score = PyInt(21)
    /\ OpponentOf(ListedEvents[1]).d.score = MkDict([value |-> PyText(<<"1","4",".","0">>)])
====
